---------------------------- MODULE Spec2Model ----------------------------
(***************************************************************************)
(* A model of pyliterate's run_markdown.py: main() loops over the paths    *)
(* of a batch, iterate_blocks() scans one Markdown text for its fences     *)
(* and runs the Python code between them, print_iter() streams or buffers  *)
(* the fragments and writes the file back.                                 *)
(*                                                                         *)
(* A text is a sequence of tokens: the fence, the line break, and words    *)
(* (tags, statements, prose).  Offsets are 0-based token offsets, sliced   *)
(* as Python slices them.                                                  *)
(***************************************************************************)
EXTENDS Integers, Sequences, FiniteSets, TLC

\* The fence delimiter (three backquotes), one token.
FENCE == "[fence]"
NL == "\n"
None == -1

\* ------------------------------------------------------------ bounds
\* Blocks in the document of a one-document run.
MaxBlocks == 3
\* Documents in a batch, and blocks in all documents of a longer batch.
MaxDocs == 2
MaxBatchBlocks == 2

\* ------------------------------------------------------- str methods
Min(a, b) == IF a < b THEN a ELSE b
Max(a, b) == IF a > b THEN a ELSE b

\* s[i:j]; a start of None is the start of the text.
Slice(s, i, j) ==
    LET lo == IF i = None THEN 0 ELSE Min(i, Len(s))
        hi == Min(j, Len(s))
    IN  IF lo >= hi THEN << >> ELSE SubSeq(s, lo + 1, hi)

\* s.find(c, from): the first offset >= from holding c, or -1.
Find(s, c, from) ==
    LET hits == {k \in from .. (Len(s) - 1) : s[k + 1] = c}
    IN  IF hits = {} THEN -1 ELSE CHOOSE k \in hits : \A m \in hits : k <= m

\* s.count(c)
Count(s, c) == Cardinality({k \in 1 .. Len(s) : s[k] = c})

\* c * n ('' when n <= 0)
Repeat(c, n) == [k \in 1 .. Max(n, 0) |-> c]

\* s.strip(chars)
StripChars(s, chars) ==
    LET keep == {k \in 1 .. Len(s) : s[k] \notin chars}
    IN  IF keep = {} THEN << >>
        ELSE SubSeq(s, CHOOSE k \in keep : \A m \in keep : k <= m,
                       CHOOSE k \in keep : \A m \in keep : k >= m)

\* s.strip('\n')
StripNL(s) == StripChars(s, {NL})

\* A variant of Strip: the text is left as it was read.
StripNothing(s) == s

\* s.strip(): white space
Strip(s) == StripChars(s, {NL, " "})

\* str.lower(), token by token
LowerToken(c) ==
    CASE c = "Code" -> "code"
      [] OTHER -> c

Lower(s) == [k \in 1 .. Len(s) |-> LowerToken(s[k])]

\* re.finditer of the fence in text: the offsets of the fences, in order.
RECURSIVE Matches(_, _)
Matches(s, from) ==
    LET k == Find(s, FENCE, from)
    IN  IF k < 0 THEN << >> ELSE <<k>> \o Matches(s, k + 1)

RECURSIVE Flatten(_)
Flatten(ss) == IF ss = << >> THEN << >> ELSE Head(ss) \o Flatten(Tail(ss))

\* ------------------------------------------------ the Python runtime
\* The statements a code block is made of.  "def f" binds f, "print(f())"
\* prints 3 when f is bound and raises NameError otherwise, "print(4)"
\* prints 4, "raise" raises ValueError('boom /tmp/x.py'), "loop" never
\* returns.
\* Any other token but a line break does not parse.
Statements == {"def f", "print(f())", "print(4)", "raise", "loop"}

NoExc == [cls |-> "", msg |-> << >>]

\* ast.parse(source, path) fails.
ParseFails(source) == \E k \in 1 .. Len(source) : source[k] \notin Statements \cup {NL}

\* str() of a SyntaxError names the file by its base name.
BaseName(p) ==
    CASE p = "./d1.md" -> "d1.md"
      [] p = "./d3.md" -> "d3.md"
      [] OTHER -> p

SyntaxErrorOf(p) ==
    [cls |-> "SyntaxError", msg |-> <<"invalid syntax (", BaseName(p), ")">>]

\* exec(code, context, context): statement after statement, in the
\* namespace `names`, printing to `out`.
RECURSIVE Exec(_, _, _)
Exec(code, names, out) ==
    IF code = << >>
    THEN [kind |-> "ok", names |-> names, out |-> out, exc |-> NoExc]
    ELSE LET s == Head(code)
         IN  CASE s = "def f" -> Exec(Tail(code), names \cup {"f"}, out)
               [] s = "print(4)" -> Exec(Tail(code), names, out \o <<"4", NL>>)
               [] s = "print(f())" ->
                    IF "f" \in names
                    THEN Exec(Tail(code), names, out \o <<"3", NL>>)
                    ELSE [kind |-> "raise", names |-> names, out |-> out,
                          exc |-> [cls |-> "NameError",
                                   msg |-> <<"name 'f' is not defined">>]]
               [] s = "raise" ->
                    [kind |-> "raise", names |-> names, out |-> out,
                     exc |-> [cls |-> "ValueError", msg |-> <<"boom ", "/tmp/x.py">>]]
               [] s = "loop" ->
                    [kind |-> "hang", names |-> names, out |-> out, exc |-> NoExc]
               [] OTHER -> Exec(Tail(code), names, out)

\* ast.parse, compile and exec of lines 159-161.
RunPython(p, source, names) ==
    IF ParseFails(source)
    THEN [kind |-> "raise", names |-> names, out |-> << >>, exc |-> SyntaxErrorOf(p)]
    ELSE Exec(source, names, << >>)

\* ------------------------------------------------------- exec_source
\* __main__.__dict__ as the module leaves it after its imports: no user
\* name, print/help builtin (not in the dict), pprint the imported module.
ModuleDict ==
    [names |-> {}, print |-> "builtin", pprint |-> "module", debug |-> "unbound",
     help |-> "builtin", Pdb |-> "unbound", STDOUT |-> "unbound"]

\* Lines 151-156: the overrides bound to this call's buffer.
InstallOverrides(ctx) ==
    [ctx EXCEPT !.print = "my_print", !.pprint = "my_pprint", !.debug = "my_debug",
                !.help = "my_help", !.Pdb = "my_pdb", !.STDOUT = "output"]

\* Lines 164 and 190: what the except and finally clauses restore.
RestoreOverrides(ctx) == [ctx EXCEPT !.print = "REAL_PRINT"]

\* A variant of NamespaceAfter: the code runs in a copy of the dict.
NamespaceAfterCopy(ctx, names) == ctx

\* Line 161, exec(code, context, context): the names the code bound are
\* bound in the dict it was given.
NamespaceAfter(ctx, names) == [ctx EXCEPT !.names = names]

\* exec_source(path, source, context, raise_exceptions): how the call ends
\* (return | WrappedException | MarkdownExecError | hang), the captured
\* output, the exception under a WrappedException, and the namespace after.
exec_source(p, source, ctx, raise_exceptions) ==
    LET r == RunPython(p, source, ctx.names)
        installed == NamespaceAfter(InstallOverrides(ctx), r.names)
    IN  CASE r.kind = "ok" ->
               [kind |-> "return", value |-> r.out, exc |-> NoExc,
                context |-> RestoreOverrides(installed), names |-> r.names]
          [] r.kind = "hang" ->
               [kind |-> "hang", value |-> r.out, exc |-> NoExc,
                context |-> installed, names |-> r.names]
          [] OTHER ->
               [kind |-> IF raise_exceptions THEN "WrappedException"
                         ELSE "MarkdownExecError",
                value |-> r.out, exc |-> r.exc,
                context |-> RestoreOverrides(installed), names |-> r.names]

\* filename_re: a path-like word with a slash and a .py or .md ending.
MatchesFilenameRe(c) == c \in {"./d1.md", "./d3.md", "./lib/a.py", "/tmp/x.py"}

\* filename_re.sub('my_code.py', s)
FilenameSub(s) ==
    [k \in 1 .. Len(s) |-> IF MatchesFilenameRe(s[k]) THEN "my_code.py" ELSE s[k]]

\* A variant of ExceptionText: the output captured before the fault is
\* dropped.
ExceptionTextLineOnly(e_output, original) ==
    <<original.cls, ": ">> \o FilenameSub(original.msg)

\* Lines 224-234: the text of a caught failure.
ExceptionText(e_output, original) ==
    LET exception_line == <<original.cls, ": ">> \o FilenameSub(original.msg)
    IN  IF e_output # << >>
        THEN e_output \o <<"Traceback ...", NL>> \o exception_line
        ELSE exception_line

\* A variant of ExceptionNotRaised: the captured output is returned.
ExceptionNotRaisedReturns(r) ==
    [kind |-> "return", value |-> r.value, exc |-> NoExc,
     context |-> r.context, names |-> r.names]

\* Lines 235-236, assert False, 'Exception not raised': exec_source
\* returned.
ExceptionNotRaised(r) ==
    [kind |-> "AssertionError", value |-> r.value, exc |-> NoExc,
     context |-> r.context, names |-> r.names]

\* exec_exception(path, source, context)
exec_exception(p, source, ctx) ==
    LET r == exec_source(p, source, ctx, TRUE)
    IN  CASE r.kind = "WrappedException" ->
               [kind |-> "return", value |-> ExceptionText(r.value, r.exc),
                exc |-> r.exc, context |-> r.context, names |-> r.names]
          [] r.kind = "return" -> ExceptionNotRaised(r)
          [] OTHER -> r

\* exec_python2(source): python2.7 runs the source in a process of its own;
\* check_output raises CalledProcessError when it exits non-zero.
exec_python2(source) ==
    LET r == RunPython("<stdin>", source, {})
    IN  CASE r.kind = "ok" -> [kind |-> "return", value |-> r.out]
          [] r.kind = "hang" -> [kind |-> "hang", value |-> << >>]
          [] OTHER -> [kind |-> "CalledProcessError", value |-> << >>]

\* What the python3 child of exec_syntax_error writes to its stderr.
ChildStderr(source) ==
    LET r == RunPython("<stdin>", source, {})
    IN  CASE r.kind = "ok" -> << >>
          [] r.exc.cls = "SyntaxError" ->
               <<"  File <stdin>", NL, "SyntaxError: invalid syntax", NL>>
          [] OTHER ->
               <<"Traceback (most recent call last):", NL, "  File <stdin>", NL>>
               \o <<r.exc.cls, ": ">> \o r.exc.msg \o <<NL>>

\* A variant of LastLine: every line is kept.
LastLineKeepsAll(s) == s

\* s.split('\n')[-1]
LastLine(s) ==
    LET nls == {k \in 1 .. Len(s) : s[k] = NL}
    IN  IF nls = {} THEN s
        ELSE SubSeq(s, (CHOOSE k \in nls : \A m \in nls : k >= m) + 1, Len(s))

\* exec_syntax_error(source)
exec_syntax_error(source) ==
    IF RunPython("<stdin>", source, {}).kind = "hang"
    THEN [kind |-> "hang", value |-> << >>]
    ELSE [kind |-> "return", value |-> LastLine(StripNL(ChildStderr(source)))]

\* ------------------------------------------------------ the documents
\* A fenced block with a tag line, a body and a closing fence on a line
\* of its own.
Block(tag, body) == <<FENCE>> \o tag \o <<NL>> \o body \o <<NL, FENCE, NL>>

\* The pieces a document is put together from: blocks of every kind, and
\* a fence with a word and no line break of its own.
Forms ==
    { Block(<<"python">>, <<"def f">>),
      Block(<<"python">>, <<"print(f())">>),
      Block(<<"python">>, <<"print(4)">>),
      Block(<<"python">>, <<"bad(">>),
      Block(<<"python">>, <<"loop">>),
      Block(<<"python-exception">>, <<"print(f())">>),
      Block(<<"python-exception">>, <<"print(4)", NL, "raise">>),
      Block(<<"python2">>, <<"print(4)">>),
      Block(<<"python-syntax-error">>, <<"bad(">>),
      Block(<<"python-include:", "lib/a.py">>, <<"stale">>),
      Block(<<"python-include:", "missing.py">>, <<"stale">>),
      Block(<< >>, <<"old">>),
      <<FENCE, "Code">> }

RECURSIVE Bodies(_)
Bodies(n) == IF n = 0 THEN {<< >>} ELSE {f \o t : f \in Forms, t \in Bodies(n - 1)}

\* The documents of n pieces.
Documents(n) == {<<"prose", NL>> \o t : t \in Bodies(n)}

\* The batches of k documents with at most `budget` pieces in all.
RECURSIVE Batches(_, _)
Batches(k, budget) ==
    IF k = 0 THEN {<< >>}
    ELSE UNION {{<<d>> \o b : d \in Documents(n), b \in Batches(k - 1, budget - n)}
                : n \in 0 .. budget}

InputBatches ==
    (UNION {{<<d>> : d \in Documents(n)} : n \in 0 .. MaxBlocks})
    \cup (UNION {Batches(k, MaxBatchBlocks) : k \in 2 .. MaxDocs})

\* The paths on the command line, in order.
DocPaths == <<"./d1.md", "d2.md", "./d3.md", "d4.md">>

\* The files under --root_dir that python-include blocks name.
IncludeFiles == {"./lib/a.py"}
IncludeData == <<NL, "x = 1", NL, NL>>

\* os.path.join(FLAGS.root_dir, include_path), --root_dir being "."
OsPathJoin(include_path) ==
    CASE include_path = <<"lib/a.py">> -> "./lib/a.py"
      [] include_path = <<"missing.py">> -> "./missing.py"
      [] OTHER -> "."

\* os.path.basename(include_path)
OsPathBasename(include_path) ==
    CASE include_path = <<"lib/a.py">> -> <<"a.py">>
      [] OTHER -> include_path

\* ------------------------------------------------------------- state
VARIABLES
    path,            \* FLAGS.path
    overwrite,       \* FLAGS.overwrite
    files,           \* the file system: path -> text
    orig,            \* the file system when the run began
    path_index,      \* main: the 1-based place of `path` in FLAGS.path
    pc,              \* main | iter | hung | write_open | write | exited
    status,          \* running | 0 | 1 | killed
    error,           \* the exception that left iterate_blocks, "" if none
    alarm,           \* signal.alarm: off | armed
    text, text_start, source_start, block_suffix,
    pending_source, pending_output,
    blocks_seen,     \* iterate_blocks: the locals
    matches,         \* iterate_blocks: what re.finditer found in text
    context,         \* __main__.__dict__
    output,          \* print_iter: what was printed for this document
    last_op,         \* what the last step did
    bound,           \* the names the code run in this pass has bound
    result,          \* per document, the text a completed pass produced
    executed,        \* the units of code exec() has been given in this pass
    earlier          \* the results of the runs of the command before this one

vars == <<path, overwrite, files, orig, path_index, pc, status, error, alarm,
          text, text_start, source_start, block_suffix, pending_source,
          pending_output, blocks_seen, matches, context, output, last_op,
          bound, result, executed, earlier>>

\* What no step of a run changes: the command line, the files as the run
\* found them, and what the earlier runs produced.
flags == <<path, overwrite, orig, earlier>>

Op(op, kind) ==
    [op |-> op, kind |-> kind, ran |-> FALSE, prior |-> << >>, value |-> << >>,
     content |-> << >>, captured |-> << >>, exc |-> NoExc]

Init ==
    /\ \E batch \in InputBatches :
         /\ path = [k \in 1 .. Len(batch) |-> DocPaths[k]]
         /\ files = [f \in {DocPaths[k] : k \in 1 .. Len(batch)} \cup IncludeFiles |->
                       IF f \in IncludeFiles THEN IncludeData
                       ELSE batch[CHOOSE k \in 1 .. Len(batch) : DocPaths[k] = f]]
         /\ result = [k \in 1 .. Len(batch) |-> {}]
    /\ orig = files
    /\ earlier = << >>
    /\ overwrite \in BOOLEAN
    /\ path_index = 0
    /\ pc = "main"
    /\ status = "running"
    /\ error = ""
    /\ alarm = "off"
    /\ text = << >>
    /\ text_start = 0
    /\ source_start = None
    /\ block_suffix = << >>
    /\ pending_source = << >>
    /\ pending_output = << >>
    /\ blocks_seen = 0
    /\ matches = << >>
    /\ context = ModuleDict
    /\ output = << >>
    /\ last_op = Op("none", "ok")
    /\ bound = {}
    /\ executed = << >>

\* Lines 159-161: a unit that parses is handed to exec().
Executed(log, unit) == IF ParseFails(unit) THEN log ELSE Append(log, unit)

\* ------------------------------------------------------------ main
cur == path[path_index]

\* Lines 250-251: the namespace a pass runs in is the module's own dict.
PassNamespace(ctx) == ctx

\* A variant of MainAfterError: main goes on with the next path.
MainSkipsToNext(err) == [pc |-> "main", status |-> "running"]

\* Lines 384-387 and 393: MarkdownExecError makes main return 1; any other
\* exception leaves main uncaught and the interpreter exits with status 1.
MainAfterError(err) == [pc |-> "exited", status |-> "1"]

\* A variant of PrintIterWrites: the file is written in a finally clause.
PrintIterWritesFinally(raised) == overwrite

\* Lines 357-364: the else clause of print_iter writes the file back.
PrintIterWrites(raised) == overwrite /\ ~raised

\* --timeout_seconds, by default.
TimeoutSeconds == 5

\* A variant of SignalAlarm: no deadline is set.
SignalAlarmNever(seconds) == "off"

\* signal.alarm(seconds): a deadline, or none when seconds is 0.
SignalAlarm(seconds) == IF seconds > 0 THEN "armed" ELSE "off"

ClearFrame ==
    /\ text' = << >>
    /\ text_start' = 0
    /\ source_start' = None
    /\ block_suffix' = << >>
    /\ pending_source' = << >>
    /\ pending_output' = << >>
    /\ blocks_seen' = 0
    /\ matches' = << >>
    /\ bound' = {}

\* Lines 370-383 and 240-251: the next path; the alarm is set, the file
\* read, and the generator's locals are fresh.
MainNextPath ==
    /\ pc = "main"
    /\ path_index < Len(path)
    /\ path_index' = path_index + 1
    /\ alarm' = SignalAlarm(TimeoutSeconds)
    /\ text' = files[path[path_index + 1]]
    /\ text_start' = 0
    /\ source_start' = None
    /\ block_suffix' = << >>
    /\ pending_source' = << >>
    /\ pending_output' = << >>
    /\ blocks_seen' = 0
    /\ matches' = Matches(files[path[path_index + 1]], 0)
    /\ context' = PassNamespace(context)
    /\ output' = << >>
    /\ pc' = "iter"
    /\ last_op' = Op("start", "ok")
    /\ bound' = {}
    /\ executed' = << >>
    /\ UNCHANGED <<flags, files, status, error, result>>

\* Line 389: every path is done.
MainReturn ==
    /\ pc = "main"
    /\ path_index = Len(path)
    /\ pc' = "exited"
    /\ status' = "0"
    /\ last_op' = Op("return", "ok")
    /\ UNCHANGED <<flags, files, path_index, error, alarm, text, text_start,
                   source_start, block_suffix, pending_source, pending_output,
                   blocks_seen, matches, context, output, bound, result, executed>>

\* An exception leaves iterate_blocks: print_iter re-raises it and main ends.
Raise(err, ctx, op) ==
    LET a == MainAfterError(err)
    IN  /\ pc' = IF PrintIterWrites(TRUE) THEN "write_open" ELSE a.pc
        /\ status' = a.status
        /\ error' = err
        /\ ClearFrame
        /\ context' = ctx
        /\ output' = IF PrintIterWrites(TRUE) THEN output ELSE << >>
        /\ last_op' = op
        /\ executed' = << >>
        /\ UNCHANGED <<flags, files, path_index, alarm, result>>

\* The executed code does not return.
Hang(ctx, op) ==
    /\ pc' = "hung"
    /\ context' = ctx
    /\ last_op' = op
    /\ UNCHANGED <<flags, files, path_index, status, error, alarm, text, text_start,
                   source_start, block_suffix, pending_source, pending_output,
                   blocks_seen, matches, output, bound, result, executed>>

\* ---------------------------------------------------- iterate_blocks
AtFence == pc = "iter" /\ blocks_seen < Len(matches)
start == matches[blocks_seen + 1]
end == start + 1
AtOpen == AtFence /\ blocks_seen % 2 = 0
AtClose == AtFence /\ blocks_seen % 2 = 1
source == Slice(text, source_start, start)

StartsWith(s, prefix) == Len(s) >= Len(prefix) /\ SubSeq(s, 1, Len(prefix)) = prefix

IsInclude(tag) == StartsWith(tag, <<"python-include:">>)
IsOutput(tag) ==
    /\ tag \notin {<<"python">>, <<"python-exception">>, <<"python2">>,
                   <<"python-syntax-error">>}
    /\ ~IsInclude(tag)

\* Lines 257-265: an opening fence.
OpenFence ==
    /\ AtOpen
    /\ LET suffix_end == Find(text, NL, end)
           suffix == Lower(Slice(text, end, suffix_end))
       IN  IF suffix_end > 0
           THEN /\ block_suffix' = suffix
                /\ source_start' = end + Len(suffix)
           ELSE UNCHANGED <<block_suffix, source_start>>
    /\ output' = output \o Slice(text, text_start, start)
    /\ blocks_seen' = blocks_seen + 1
    /\ last_op' = Op("open", "ok")
    /\ UNCHANGED <<flags, files, path_index, pc, status, error, alarm, text,
                   text_start, pending_source, pending_output, matches, context,
                   bound, result, executed>>

\* Lines 286-292: the body joins the pending source, padded to its line.
AppendSource(pending, body) ==
    LET line_offset == Count(Slice(text, 0, source_start), NL)
        delta_offset == line_offset - Count(pending, NL)
    IN  pending \o Repeat(NL, delta_offset) \o body

\* Something was yielded and the loop goes on to the next fence.
Continue(op) ==
    /\ text_start' = end
    /\ blocks_seen' = blocks_seen + 1
    /\ last_op' = op
    /\ UNCHANGED <<flags, files, path_index, pc, status, error, alarm, text,
                   source_start, block_suffix, matches, result>>

\* Lines 271-296, tag python: accumulate, re-emit, run nothing.
ClosePython ==
    /\ AtClose
    /\ block_suffix = <<"python">>
    /\ pending_source' = AppendSource(pending_source, source)
    /\ output' = output \o <<FENCE>> \o block_suffix \o source \o <<FENCE>>
    /\ Continue(Op("python", "ok"))
    /\ UNCHANGED <<pending_output, context, bound, executed>>

\* A variant of FlushPending: the pending source is left to run with the
\* exception block's body.
FlushPendingSkipped(pending, pending_out, ctx) ==
    [kind |-> "return", ran |-> FALSE, context |-> ctx, names |-> {},
     pending_source |-> pending, pending_output |-> pending_out]

\* Lines 275-279: the pending source is run ahead of an exception block.
FlushPending(pending, pending_out, ctx) ==
    IF pending # << >>
    THEN LET r == exec_source(cur, pending, ctx, FALSE)
         IN  [kind |-> r.kind, ran |-> TRUE, context |-> r.context, names |-> r.names,
              pending_source |-> << >>, pending_output |-> pending_out \o r.value]
    ELSE [kind |-> "return", ran |-> FALSE, context |-> ctx, names |-> {},
          pending_source |-> pending, pending_output |-> pending_out]

\* Lines 271-301, tag python-exception.
ClosePythonException ==
    /\ AtClose
    /\ block_suffix = <<"python-exception">>
    /\ LET f == FlushPending(pending_source, pending_output, context)
           unit == AppendSource(f.pending_source, source)
           r == exec_exception(cur, unit, f.context)
           x == exec_source(cur, unit, f.context, TRUE)
           op == [Op("python-exception", r.kind) EXCEPT
                    !.ran = f.ran, !.prior = f.pending_output, !.value = r.value,
                    !.captured = x.value, !.exc = x.exc]
       IN  CASE f.kind = "hang" -> Hang(f.context, Op("flush", "hang"))
             [] f.kind = "MarkdownExecError" ->
                  Raise(f.kind, f.context, Op("flush", f.kind))
             [] r.kind = "hang" -> Hang(r.context, op)
             [] r.kind = "AssertionError" -> Raise(r.kind, r.context, op)
             [] OTHER ->
                  /\ pending_source' = << >>
                  /\ pending_output' = f.pending_output \o r.value
                  /\ context' = r.context
                  /\ bound' = bound \cup f.names \cup r.names
                  /\ executed' = Executed(IF f.ran THEN Executed(executed, pending_source)
                                           ELSE executed, unit)
                  /\ output' = output \o <<FENCE>> \o block_suffix \o source \o <<FENCE>>
                  /\ Continue(op)

\* Lines 302-309, tag python2.
ClosePython2 ==
    /\ AtClose
    /\ block_suffix = <<"python2">>
    /\ LET r == exec_python2(source)
           marker == IF StartsWith(source, <<NL, "# Python 2">>) THEN << >>
                     ELSE <<NL, "# Python 2">>
           op == [Op("python2", r.kind) EXCEPT !.prior = pending_output,
                                                !.value = r.value]
       IN  CASE r.kind = "hang" -> Hang(context, op)
             [] r.kind = "CalledProcessError" -> Raise(r.kind, context, op)
             [] OTHER ->
                  /\ output' = output \o <<FENCE, "python2">> \o marker \o source
                                      \o <<FENCE>>
                  /\ pending_output' = pending_output \o r.value
                  /\ Continue(op)
                  /\ UNCHANGED <<pending_source, context, bound, executed>>

\* Lines 310-315, tag python-syntax-error.
CloseSyntaxError ==
    /\ AtClose
    /\ block_suffix = <<"python-syntax-error">>
    /\ LET r == exec_syntax_error(source)
           op == [Op("python-syntax-error", r.kind) EXCEPT !.prior = pending_output,
                                                            !.value = r.value]
       IN  CASE r.kind = "hang" -> Hang(context, op)
             [] OTHER ->
                  /\ output' = output \o <<FENCE, "python-syntax-error">> \o source
                                      \o <<FENCE>>
                  /\ pending_output' = pending_output \o r.value
                  /\ Continue(op)
                  /\ UNCHANGED <<pending_source, context, bound, executed>>

\* Lines 316-325, tag python-include:<path>.
CloseInclude ==
    /\ AtClose
    /\ IsInclude(block_suffix)
    /\ LET include_path == Tail(block_suffix)
           file_basename == OsPathBasename(include_path)
           full_path == OsPathJoin(include_path)
       IN  IF full_path \notin DOMAIN files
           THEN Raise("FileNotFoundError", context,
                      Op("python-include", "FileNotFoundError"))
           ELSE /\ output' = output \o <<FENCE>> \o block_suffix \o <<NL>>
                                    \o <<"# ">> \o file_basename \o <<NL>>
                                    \o Strip(files[full_path]) \o <<NL, FENCE>>
                /\ Continue(Op("python-include", "ok"))
                /\ UNCHANGED <<pending_source, pending_output, context, bound,
                               executed>>

\* A variant of JoinOutput: the result replaces the pending output.
JoinOutputReplaces(pending_out, value) == value

\* Line 328: the result joins the pending output.
JoinOutput(pending_out, value) == pending_out \o value

\* Lines 326-343, any other tag: the output block.
CloseOutput ==
    /\ AtClose
    /\ IsOutput(block_suffix)
    /\ LET ran == pending_source # << >>
           r == exec_source(cur, pending_source, context, FALSE)
           shown == IF ran THEN JoinOutput(pending_output, r.value)
                    ELSE IF pending_output = << >> THEN source
                    ELSE pending_output
           content == StripNL(shown)
           op == [Op("output", IF ran THEN r.kind ELSE "return") EXCEPT
                    !.ran = ran, !.prior = pending_output,
                    !.value = IF ran THEN r.value ELSE << >>,
                    !.content = content]
       IN  CASE ran /\ r.kind = "hang" -> Hang(r.context, op)
             [] ran /\ r.kind = "MarkdownExecError" -> Raise(r.kind, r.context, op)
             [] OTHER ->
                  /\ output' = output \o <<FENCE>> \o block_suffix \o <<NL>>
                                      \o content \o <<NL, FENCE>>
                  /\ pending_source' = << >>
                  /\ pending_output' = << >>
                  /\ context' = IF ran THEN r.context ELSE context
                  /\ bound' = IF ran THEN bound \cup r.names ELSE bound
                  /\ executed' = IF ran THEN Executed(executed, pending_source)
                                 ELSE executed
                  /\ Continue(op)

\* A variant of RunsAtEnd: what is pending at the end is never run.
RunsAtEndNever(pending) == FALSE

\* Line 349, if pending_source: what is still pending is run.
RunsAtEnd(pending) == pending # << >>

\* Lines 345-350 and 362-364: the text after the last block, the run of
\* what is still pending, and the end of print_iter's loop.
EndOfDocument ==
    /\ pc = "iter"
    /\ blocks_seen = Len(matches)
    /\ LET ran == RunsAtEnd(pending_source)
           r == exec_source(cur, pending_source, context, FALSE)
           whole == output \o Slice(text, text_start, Len(text))
           op == [Op("eof", IF ran THEN r.kind ELSE "return") EXCEPT
                    !.ran = ran, !.value = IF ran THEN r.value ELSE << >>]
       IN  CASE ran /\ r.kind = "hang" -> Hang(r.context, op)
             [] ran /\ r.kind = "MarkdownExecError" -> Raise(r.kind, r.context, op)
             [] OTHER ->
                  /\ ClearFrame
                  /\ context' = IF ran THEN r.context ELSE context
                  /\ output' = whole
                  /\ result' = [result EXCEPT ![path_index] = {whole}]
                  /\ executed' = IF ran THEN Executed(executed, pending_source)
                                 ELSE executed
                  /\ pc' = IF PrintIterWrites(FALSE) THEN "write_open" ELSE "main"
                  /\ last_op' = op
                  /\ UNCHANGED <<flags, files, path_index, status, error, alarm>>

\* Line 364, open(path, 'w'): the file is truncated.
OpenForWrite ==
    /\ pc = "write_open"
    /\ files' = [files EXCEPT ![cur] = << >>]
    /\ pc' = "write"
    /\ last_op' = Op("open_w", "ok")
    /\ UNCHANGED <<flags, path_index, status, error, alarm, text, text_start,
                   source_start, block_suffix, pending_source, pending_output,
                   blocks_seen, matches, context, output, bound, result, executed>>

\* Line 364, .write(output.getvalue()) and the close of the file object.
WriteAndClose ==
    /\ pc = "write"
    /\ files' = [files EXCEPT ![cur] = output]
    /\ pc' = IF error = "" THEN "main" ELSE MainAfterError(error).pc
    /\ output' = << >>
    /\ last_op' = Op("write", "ok")
    /\ UNCHANGED <<flags, path_index, status, error, alarm, text, text_start,
                   source_start, block_suffix, pending_source, pending_output,
                   blocks_seen, matches, context, bound, result, executed>>

\* Lines 379-380: SIGALRM is not handled, so the alarm ends the process
\* wherever it is.
Watchdog ==
    /\ alarm = "armed"
    /\ pc # "exited"
    /\ pc' = "exited"
    /\ status' = "killed"
    /\ ClearFrame
    /\ output' = << >>
    /\ context' = ModuleDict
    /\ executed' = << >>
    /\ last_op' = Op("SIGALRM", IF pc = "hung" THEN "hang" ELSE "ok")
    /\ UNCHANGED <<flags, files, path_index, error, alarm, result>>

Next ==
    \/ MainNextPath
    \/ MainReturn
    \/ OpenFence
    \/ ClosePython
    \/ ClosePythonException
    \/ ClosePython2
    \/ CloseSyntaxError
    \/ CloseInclude
    \/ CloseOutput
    \/ EndOfDocument
    \/ OpenForWrite
    \/ WriteAndClose
    \/ Watchdog

Spec == Init /\ [][Next]_vars

\* Line 393 once more: the same command line is run again, in a process of
\* its own, on the files the first run wrote back.
Rerun ==
    /\ pc = "exited"
    /\ status = "0"
    /\ overwrite
    /\ earlier = << >>
    /\ earlier' = <<result>>
    /\ orig' = files
    /\ result' = [k \in 1 .. Len(path) |-> {}]
    /\ path_index' = 0
    /\ pc' = "main"
    /\ status' = "running"
    /\ alarm' = "off"
    /\ context' = ModuleDict
    /\ last_op' = Op("rerun", "ok")
    /\ executed' = << >>
    /\ UNCHANGED <<path, overwrite, files, error, text, text_start, source_start,
                   block_suffix, pending_source, pending_output, blocks_seen,
                   matches, output, bound>>

NextRerun ==
    \/ Next
    \/ Rerun

SpecRerun == Init /\ [][NextRerun]_vars

\* ------------------------------------------------------------ claims
EndsWith(s, suffix) ==
    Len(s) >= Len(suffix) /\ SubSeq(s, Len(s) - Len(suffix) + 1, Len(s)) = suffix

Docs == 1 .. Len(path)
InPass == pc = "iter"

\* An output block has just run the pending source, which returned.
OutputBlockRan == last_op.op = "output" /\ last_op.ran /\ last_op.kind = "return"

\* C1, as stated: an output block reached with pending source runs it, and
\* its new content is the result of that run, trimmed of line breaks,
\* whatever came before.
C1_ContentIsResult ==
    OutputBlockRan =>
        /\ pending_source = << >>
        /\ last_op.content = StripNL(last_op.value)
        /\ EndsWith(output, <<FENCE>> \o block_suffix \o <<NL>>
                            \o StripNL(last_op.value) \o <<NL, FENCE>>)

\* C1, amended: the new content is the pending result gathered since the
\* last output block followed by the result of that run, trimmed; the
\* pending source and the pending result are empty afterwards.
C1_ContentIsPendingThenResult ==
    OutputBlockRan =>
        /\ pending_source = << >>
        /\ pending_output = << >>
        /\ last_op.content = StripNL(last_op.prior \o last_op.value)
        /\ EndsWith(output, <<FENCE>> \o block_suffix \o <<NL>>
                            \o StripNL(last_op.prior \o last_op.value)
                            \o <<NL, FENCE>>)

\* C1's case: the run printed something and a result was already pending.
C1_Witness ==
    /\ OutputBlockRan
    /\ last_op.prior # << >>
    /\ last_op.value # << >>

\* C2: while a document is being processed, every name the code run in
\* this pass has bound is still bound in the namespace.
C2_NamesStayBound == InPass => bound \subseteq context.names

\* C2's case: a python-exception block's failure was captured after f was
\* bound by an earlier block.
C2_Witness ==
    /\ InPass
    /\ last_op.op = "python-exception"
    /\ last_op.exc.cls = "ValueError"
    /\ "f" \in bound

\* C3, as stated: no name is visible in a pass that the pass's own code
\* has not bound (the namespace is recreated for each path).
C3_FreshNamespacePerPath == InPass => context.names \subseteq bound

\* The text exec_exception makes of a caught failure.
CaughtText ==
    (IF last_op.captured # << >> THEN last_op.captured \o <<"Traceback ...", NL>>
     ELSE << >>)
    \o <<last_op.exc.cls, ": ">> \o FilenameSub(last_op.exc.msg)

\* A python-exception block's body has just raised.
ExceptionBlockRaised == last_op.op = "python-exception" /\ last_op.exc.cls # ""

\* C4, as stated: the pass goes on, the text of the failure is the pending
\* result, and nothing is pending to run.
C4_TextIsPendingResult ==
    ExceptionBlockRaised =>
        /\ InPass /\ status = "running" /\ error = ""
        /\ pending_source = << >>
        /\ pending_output = CaughtText

\* C4, amended: the text of the failure is appended to the pending result.
C4_TextJoinsPendingResult ==
    ExceptionBlockRaised =>
        /\ InPass /\ status = "running" /\ error = ""
        /\ pending_source = << >>
        /\ pending_output = last_op.prior \o CaughtText

\* C4's case: the body printed before it raised.
C4_Witness ==
    /\ ExceptionBlockRaised
    /\ last_op.captured # << >>
    /\ pending_output = <<"4", NL, "Traceback ...", NL, "ValueError", ": ", "boom ",
                          "my_code.py">>

\* The pending source is about to be run: at an output block, ahead of a
\* python-exception block, or at the end of the document.
AtRunOfPending ==
    /\ InPass
    /\ pending_source # << >>
    /\ \/ blocks_seen = Len(matches)
       \/ AtClose /\ (block_suffix = <<"python-exception">> \/ IsOutput(block_suffix))

\* C5: when the pending source of ordinary python blocks fails to parse or
\* raises, the step that runs it ends the pass with MarkdownExecError:
\* nothing is emitted or written, and nothing happens afterwards.
C5_OrdinaryFailureAborts ==
    [][ /\ (AtRunOfPending
            /\ RunPython(cur, pending_source, context.names).kind = "raise"
            /\ status' # "killed")
           => /\ pc' = "exited"
              /\ status' = "1"
              /\ error' = "MarkdownExecError"
              /\ files' = files
              /\ result' = result
        /\ pc = "exited" => pc' = "exited" ]_vars

\* C5's case: the failure was in the source flushed ahead of a
\* python-exception block.
C5_Witness ==
    /\ last_op.op = "flush"
    /\ last_op.kind = "MarkdownExecError"
    /\ pc = "exited"

\* C6: a file differs from what it was only in overwrite mode and only
\* once its pass has produced every fragment and run what was pending.
C6_WrittenOnlyAfterPass ==
    \A k \in Docs :
        files[path[k]] # orig[path[k]] => overwrite /\ result[k] # {} /\ k <= path_index

\* C6's case: the run of the trailing source failed in overwrite mode.
C6_Witness ==
    /\ overwrite
    /\ last_op.op = "eof"
    /\ last_op.kind = "MarkdownExecError"
    /\ files = orig

\* C7, as stated: however the run ends, every file holds its original
\* text or the whole rewritten text.
C7_NeverPartlyWritten ==
    pc = "exited" =>
        \A k \in Docs : files[path[k]] = orig[path[k]] \/ files[path[k]] \in result[k]

C9_FailureStopsBatch ==
    error # "" =>
        /\ pc = "exited"
        /\ status = "1"
        /\ ~ENABLED Next
        /\ files[cur] = orig[cur]
        /\ \A k \in Docs : k > path_index =>
              files[path[k]] = orig[path[k]] /\ result[k] = {}
        /\ \A k \in Docs : k < path_index =>
              /\ result[k] # {}
              /\ overwrite => files[path[k]] \in result[k]

\* C9's case: the second document's include failed after the first was
\* rewritten.
C9_Witness ==
    /\ error = "FileNotFoundError"
    /\ path_index = 2
    /\ files[path[1]] # orig[path[1]]

ExecutableTags ==
    {"python", "python-exception", "python2", "python-syntax-error", "python-include:"}

NoExecutableBlock(t) == \A k \in 1 .. Len(t) : t[k] \notin ExecutableTags

\* C10, as stated: a document with no executable block is emitted as it
\* is, and nothing is run.
C10_Verbatim ==
    \A k \in Docs :
        (NoExecutableBlock(orig[path[k]]) /\ result[k] # {}) =>
            result[k] = {orig[path[k]]}

\* C11, as stated: when the command is run again on the text it wrote
\* back, every pass that completes produces the text it was given,
\* rewrite(rewrite(d)) = rewrite(d).
C11_Idempotent ==
    \A k \in Docs :
        (earlier # << >> /\ result[k] # {}) => result[k] = earlier[1][k]

\* The block that includes lib/a.py, as it is emitted.
IncludedBlock ==
    <<FENCE, "python-include:", "lib/a.py", NL, "# ", "a.py", NL, "x = 1", NL, FENCE>>

\* C12: the step at the closing fence of a python-include block runs
\* nothing and leaves the pending source, the pending result, the
\* namespace and the files as they were; what it emits is the tag line, a
\* header line with the base name of the file, and the file's trimmed
\* contents in place of the body the block had.
C12_IncludeOnlyEmits ==
    [][ (/\ AtClose
         /\ block_suffix = <<"python-include:", "lib/a.py">>
         /\ status' # "killed")
        => /\ pc' = "iter"
           /\ pending_source' = pending_source
           /\ pending_output' = pending_output
           /\ context' = context
           /\ bound' = bound
           /\ files' = files
           /\ output' = output \o IncludedBlock ]_vars

\* C12's case: a file was included while source and a result were pending.
C12_Witness ==
    /\ last_op.op = "python-include"
    /\ last_op.kind = "ok"
    /\ pending_source # << >>
    /\ pending_output # << >>
    /\ EndsWith(output, IncludedBlock)

\* The body of a python-exception block has just run to its end without
\* raising.
ExceptionBlockReturned ==
    /\ last_op.op = "python-exception"
    /\ last_op.kind # "hang"
    /\ last_op.exc = NoExc

\* C13, as stated: when the body of a python-exception block does not
\* raise, its captured output is the pending result for the next output
\* block and the pass goes on.
C13_OutputIsPendingResult ==
    ExceptionBlockReturned =>
        /\ InPass /\ status = "running" /\ error = ""
        /\ pending_output = last_op.prior \o last_op.captured

\* C13, amended: when the body of a python-exception block does not raise,
\* the pass fails with AssertionError: the captured output is dropped, the
\* file is left as it was and the run is over with status 1.
C13_NoRaiseFailsPass ==
    ExceptionBlockReturned =>
        /\ pc = "exited" /\ status = "1" /\ error = "AssertionError"
        /\ pending_output = << >>
        /\ files[cur] = orig[cur]
        /\ result[path_index] = {}
        /\ ~ENABLED Next

\* C13's case: the body printed 3 and returned.
C13_Witness ==
    /\ ExceptionBlockReturned
    /\ last_op.captured = <<"3", NL>>

\* C14, as stated: whenever no block is being executed, and so after
\* every return and every exception of exec_source, print, pprint, debug,
\* help, Pdb and STDOUT are what they were before the overrides.
C14_OverridesReverted ==
    pc # "hung" =>
        /\ context.print \in {"builtin", "REAL_PRINT"}
        /\ context.pprint = ModuleDict.pprint
        /\ context.debug = ModuleDict.debug
        /\ context.help = ModuleDict.help
        /\ context.Pdb = ModuleDict.Pdb
        /\ context.STDOUT = ModuleDict.STDOUT

\* The closing fence of a python or python-exception block is reached.
AtAppend == AtClose /\ block_suffix \in {<<"python">>, <<"python-exception">>}

\* The pending source the body is about to join: nothing, ahead of an
\* exception block, for what was pending has been run.
PendingAtAppend ==
    IF block_suffix = <<"python-exception">> THEN << >> ELSE pending_source

\* C15, as stated: when a body is about to join the pending source, the
\* padding delta is not negative, so that the padded pending source has as
\* many line breaks as the document has before the body.
C15_DeltaNeverNegative ==
    AtAppend =>
        /\ Count(Slice(text, 0, source_start), NL) - Count(PendingAtAppend, NL) >= 0
        /\ Count(PendingAtAppend
                 \o Repeat(NL, Count(Slice(text, 0, source_start), NL)
                               - Count(PendingAtAppend, NL)), NL)
              = Count(Slice(text, 0, source_start), NL)

\* The 1-based places of the fences of a text.
FencesOf(t) == {i \in 1 .. Len(t) : t[i] = FENCE}

\* What follows the last closed block of a text with an odd number of
\* fences: the text after the last but one fence.
Residual(t) ==
    LET last == CHOOSE i \in FencesOf(t) : \A j \in FencesOf(t) : j <= i
        closed == FencesOf(t) \ {last}
        e == IF closed = {} THEN 0
             ELSE CHOOSE i \in closed : \A j \in closed : j <= i
    IN  SubSeq(t, e + 1, Len(t))

\* C16, as stated: the text a pass makes of a document with an odd number
\* of fences is what was emitted up to the closing fence of the last
\* closed block, followed by the rest of the input, once.
C16_ResidualOnce ==
    \A k \in Docs :
        (result[k] # {} /\ Cardinality(FencesOf(orig[path[k]])) % 2 = 1) =>
            \A r \in result[k] :
                /\ EndsWith(r, Residual(orig[path[k]]))
                /\ LET x == SubSeq(r, 1, Len(r) - Len(Residual(orig[path[k]])))
                   IN  x = << >> \/ x[Len(x)] = FENCE

\* The fence that opened the block now being closed.
opened == matches[blocks_seen]

\* C17, as stated: when no line break follows the opening fence of a
\* block, the block's tag is empty and its body is the text from that
\* fence to the closing one, whatever the blocks before it were.
C17_EmptyTagWithoutLineBreak ==
    (AtClose /\ Find(text, NL, opened + 1) < 0) =>
        /\ block_suffix = << >>
        /\ source = Slice(text, opened + 1, start)

\* The statements of a text, in order: its tokens but the line breaks.
StatementsOf(t) ==
    LET NotBreak(c) == c # NL
    IN  SelectSeq(t, NotBreak)

\* The statements in the bodies of the python and python-exception blocks
\* of a document, in document order: the fences pair up from the start,
\* and a block is one of these when its tag line says so.
BodyStatements(t) ==
    LET ms == Matches(t, 0)
        InBody(i) ==
            \E j \in 1 .. (Len(ms) \div 2) :
                /\ ms[2 * j - 1] + 3 <= i /\ i <= ms[2 * j]
                /\ t[ms[2 * j - 1] + 2] \in {"python", "python-exception"}
                /\ t[ms[2 * j - 1] + 3] = NL
        Picked(i) == InBody(i) /\ t[i] # NL
        places == SelectSeq([i \in 1 .. Len(t) |-> i], Picked)
    IN  [n \in 1 .. Len(places) |-> t[places[n]]]

\* C18: the closing fence of a python block runs nothing and leaves its
\* body pending; every run leaves nothing pending; and when a pass
\* completes, what has been run is the bodies of the document's python
\* and python-exception blocks, each once and in document order,
\* including the blocks after the last output block.
C18_EachBodyRunOnce ==
    [][ /\ (AtClose /\ block_suffix = <<"python">> /\ status' # "killed")
           => /\ executed' = executed
              /\ pending_source' # << >>
        /\ (executed' # executed /\ pc' = "iter") => pending_source' = << >>
        /\ (pc = "iter" /\ result' # result)
           => StatementsOf(Flatten(executed')) = BodyStatements(text) ]_vars

\* C18's case: a pass has completed that ran code three times, the last
\* time at the end of the document.
C18_Witness ==
    /\ last_op.op = "eof"
    /\ last_op.ran
    /\ result[path_index] # {}
    /\ Len(executed) = 3

\* The closing fence of a python2 or python-syntax-error block is reached.
AtOtherRuntime ==
    AtClose /\ block_suffix \in {<<"python2">>, <<"python-syntax-error">>}

\* What the block at hand captures: the 4 that python2 prints, or the
\* last line of what python3 says of the body that does not parse.
CapturedText ==
    IF block_suffix = <<"python2">> THEN <<"4", NL>>
    ELSE <<"SyntaxError: invalid syntax">>

\* C19: a python2 or python-syntax-error block that the pass survives runs
\* nothing in the namespace and leaves it and the pending source as they
\* were; it appends the text it captured to the pending result.  An output
\* block shows the pending result and leaves none.
C19_OtherRuntimesOnlyAppend ==
    [][ /\ (AtOtherRuntime /\ pc' = "iter")
           => /\ pending_source' = pending_source
              /\ context' = context
              /\ bound' = bound
              /\ executed' = executed
              /\ pending_output' = pending_output \o CapturedText
        /\ (AtClose /\ IsOutput(block_suffix) /\ pc' = "iter" /\ pending_output # << >>)
           => /\ pending_output' = << >>
              /\ last_op'.content = StripNL(pending_output \o last_op'.value)
              /\ EndsWith(output', <<NL>> \o last_op'.content \o <<NL, FENCE>>) ]_vars

\* C19's case: a python-syntax-error block was passed while source and
\* the output of a python2 block were pending.
C19_Witness ==
    /\ last_op.op = "python-syntax-error"
    /\ pending_source # << >>
    /\ pending_output = <<"4", NL, "SyntaxError: invalid syntax">>

\* The tag of the block before the one that has just been closed, when it
\* has a tag line of one word.
PreviousTag ==
    IF blocks_seen >= 4 /\ text[matches[blocks_seen - 3] + 3] = NL
    THEN text[matches[blocks_seen - 3] + 2]
    ELSE ""

\* C20, as stated: the content of an output block holds the results in
\* the document order of their blocks; so when the block just before it
\* is a python2 or python-syntax-error block, the content ends with the
\* text of that block, whatever python blocks came earlier.
C20_DocumentOrder ==
    (last_op.op = "output" /\ last_op.kind = "return" /\ InPass) =>
        /\ PreviousTag = "python-syntax-error"
              => EndsWith(last_op.content, <<"SyntaxError: invalid syntax">>)
        /\ PreviousTag = "python2" => EndsWith(last_op.content, <<"4">>)

=============================================================================
